---------------------------- MODULE Spec2Model ----------------------------
(***************************************************************************)
(* A model of cryojax/simulator/pose.py: the Pose value objects            *)
(* (EulerPose, QuaternionPose), their cached accessors, and the free       *)
(* functions rotate_coordinates, compute_shifts and make_euler_rotation.   *)
(*                                                                         *)
(* Numbers.  Every quantity is kept exact in integers:                     *)
(*   - an angle in radians is counted in quarter turns (units of pi/2),    *)
(*     an angle in degrees in degrees;                                     *)
(*   - an SO3 element is the quaternion wxyz / sqrt(den2), wxyz integer    *)
(*     (the quaternion of a quarter turn is (1,1,0,0)/sqrt(2));            *)
(*   - offsets and frequencies are counted in halves, so their product is  *)
(*     counted in quarters of a cycle and exp(-2 pi i t) is a power of -i; *)
(*   - a complex number is the pair <<re, im>>.                            *)
(***************************************************************************)
EXTENDS Integers, Sequences, FiniteSets, TLC

VARIABLES pose, cache, call, ret

vars == <<pose, cache, call, ret>>

----------------------------------------------------------------------------
(* Bounds of the model.                                                    *)

MaxTurn == 1
MaxConvLen == 4
MaxDim == 2
MaxQuat == 1
MaxOffset == 1
MaxFreq == 1

----------------------------------------------------------------------------
(* Results of a call: a returned value or a raised exception.              *)

Ok(v) == [kind |-> "ok", value |-> v]
Raise(e) == [kind |-> "error", value |-> e]
IsOk(r) == r.kind = "ok"
Pending == [kind |-> "pending", value |-> "none"]

----------------------------------------------------------------------------
(* The rotation group facility (jaxlie.SO3) as pose.py uses it.            *)

Axes == {"x", "y", "z"}

RECURSIVE Halve(_)
(* The canonical form of wxyz / sqrt(den2): common factors of two removed. *)
Halve(R) ==
  IF /\ R.den2 % 4 = 0
     /\ \A i \in 1..4 : R.wxyz[i] % 2 = 0
     /\ \E j \in 1..4 : R.wxyz[j] # 0
  THEN Halve([wxyz |-> [i \in 1..4 |-> R.wxyz[i] \div 2], den2 |-> R.den2 \div 4])
  ELSE R

(* SO3(wxyz=...): the four numbers are stored as given, not normalised.    *)
SO3(wxyz) == [wxyz |-> wxyz, den2 |-> 1]

(* cos and sin of k eighth-turns, each times sqrt(den2).                   *)
HalfAngle(k) ==
  CASE k % 8 = 0 -> [c |-> 1, s |-> 0, den2 |-> 1]
    [] k % 8 = 1 -> [c |-> 1, s |-> 1, den2 |-> 2]
    [] k % 8 = 2 -> [c |-> 0, s |-> 1, den2 |-> 1]
    [] k % 8 = 3 -> [c |-> -1, s |-> 1, den2 |-> 2]
    [] k % 8 = 4 -> [c |-> -1, s |-> 0, den2 |-> 1]
    [] k % 8 = 5 -> [c |-> -1, s |-> -1, den2 |-> 2]
    [] k % 8 = 6 -> [c |-> 0, s |-> -1, den2 |-> 1]
    [] k % 8 = 7 -> [c |-> 1, s |-> -1, den2 |-> 2]

(* SO3.from_<axis>_radians(theta), theta = k quarter turns:                *)
(* the quaternion (cos(theta/2), sin(theta/2) * axis).                     *)
FromAxisRadians(axis, k) ==
  LET h == HalfAngle(k)
  IN [wxyz |-> <<h.c,
                 IF axis = "x" THEN h.s ELSE 0,
                 IF axis = "y" THEN h.s ELSE 0,
                 IF axis = "z" THEN h.s ELSE 0>>,
      den2 |-> h.den2]

(* The Hamilton product of two quaternions.                                *)
QuatMul(p, q) ==
  << p[1]*q[1] - p[2]*q[2] - p[3]*q[3] - p[4]*q[4],
     p[1]*q[2] + p[2]*q[1] + p[3]*q[4] - p[4]*q[3],
     p[1]*q[3] - p[2]*q[4] + p[3]*q[1] + p[4]*q[2],
     p[1]*q[4] + p[2]*q[3] - p[3]*q[2] + p[4]*q[1] >>

(* R1 @ R2: the quaternion product (no renormalisation).                   *)
SO3Multiply(R1, R2) ==
  Halve([wxyz |-> QuatMul(R1.wxyz, R2.wxyz), den2 |-> R1.den2 * R2.den2])

(* R.inverse(): the conjugate quaternion.                                  *)
SO3Inverse(R) ==
  [wxyz |-> <<R.wxyz[1], -R.wxyz[2], -R.wxyz[3], -R.wxyz[4]>>, den2 |-> R.den2]

(* SO3Apply with the conjugation left out: the vector part of R @ (0, v).  *)
SO3ApplyNoConjugate(R, v) ==
  IF Len(v) # 3 THEN Raise("AssertionError")
  ELSE LET q == QuatMul(R.wxyz, <<0, v[1], v[2], v[3]>>)
       IN Ok(<<q[2] \div R.den2, q[3] \div R.den2, q[4] \div R.den2>>)

(* R.apply(v): the vector part of R @ (0, v) @ R.inverse(); a target that  *)
(* is not a 3-vector fails the library's own shape assertion.              *)
SO3Apply(R, v) ==
  IF Len(v) # 3 THEN Raise("AssertionError")
  ELSE LET q == QuatMul(QuatMul(R.wxyz, <<0, v[1], v[2], v[3]>>),
                        SO3Inverse(R).wxyz)
       IN Ok(<<q[2] \div R.den2, q[3] \div R.den2, q[4] \div R.den2>>)

----------------------------------------------------------------------------
(* make_euler_rotation                                                     *)

DegreesPerQuarterTurn == 90

(* jnp.deg2rad: degrees to radians (here: to quarter turns).               *)
Deg2Rad(d) == d \div DegreesPerQuarterTurn

(* line 241: getattr(SO3, "from_<axis>_radians") for every character.      *)
RotationsLookup(convention) ==
  IF \E i \in 1..Len(convention) : convention[i] \notin Axes
  THEN Raise("AttributeError")
  ELSE Ok(convention)

(* make_euler_rotation with the two composition orders exchanged.          *)
MakeEulerRotationSwapped(phi, theta, psi, convention, intrinsic, degrees) ==
  LET rotations == RotationsLookup(convention)
      a1 == IF degrees THEN Deg2Rad(phi) ELSE phi
      a2 == IF degrees THEN Deg2Rad(theta) ELSE theta
      a3 == IF degrees THEN Deg2Rad(psi) ELSE psi
  IN IF ~IsOk(rotations) THEN rotations
     ELSE IF Len(convention) < 3 THEN Raise("IndexError")
     ELSE LET R1 == FromAxisRadians(convention[1], a1)
              R2 == FromAxisRadians(convention[2], a2)
              R3 == FromAxisRadians(convention[3], a3)
          IN Ok(IF intrinsic
                THEN SO3Multiply(SO3Multiply(R3, R2), R1)
                ELSE SO3Multiply(SO3Multiply(R1, R2), R3))

MakeEulerRotation(phi, theta, psi, convention, intrinsic, degrees) ==
  LET rotations == RotationsLookup(convention)
      a1 == IF degrees THEN Deg2Rad(phi) ELSE phi
      a2 == IF degrees THEN Deg2Rad(theta) ELSE theta
      a3 == IF degrees THEN Deg2Rad(psi) ELSE psi
  IN IF ~IsOk(rotations) THEN rotations
     ELSE IF Len(convention) < 3 THEN Raise("IndexError")
     ELSE LET R1 == FromAxisRadians(convention[1], a1)
              R2 == FromAxisRadians(convention[2], a2)
              R3 == FromAxisRadians(convention[3], a3)
          IN Ok(IF intrinsic
                THEN SO3Multiply(SO3Multiply(R1, R2), R3)
                ELSE SO3Multiply(SO3Multiply(R3, R2), R1))

----------------------------------------------------------------------------
(* Arrays: [shape, data], data nested to the depth of the shape, in the    *)
(* row-major (C) order numpy and jax use.                                  *)

Array(shape, data) == [shape |-> shape, data |-> data]

RECURSIVE Prod(_)
Prod(shape) == IF shape = <<>> THEN 1 ELSE Head(shape) * Prod(Tail(shape))

RECURSIVE Concat(_)
Concat(ss) == IF ss = <<>> THEN <<>> ELSE Head(ss) \o Concat(Tail(ss))

RECURSIVE Ravel(_, _)
(* The scalars of nested data of the given rank, in row-major order.       *)
Ravel(data, rank) ==
  IF rank = 1 THEN data
  ELSE Concat([i \in 1..Len(data) |-> Ravel(data[i], rank - 1)])

RECURSIVE Nest(_, _)
(* Row-major scalars regrouped to the given shape.                         *)
Nest(flat, shape) ==
  IF Len(shape) = 1 THEN flat
  ELSE LET stride == Prod(Tail(shape))
       IN [i \in 1..shape[1] |->
             Nest(SubSeq(flat, (i - 1) * stride + 1, i * stride), Tail(shape))]

(* coords.reshape(newshape): same scalars in the same order; an element    *)
(* count that does not match is an error.                                  *)
Reshape(a, newshape) ==
  IF Prod(a.shape) # Prod(newshape) THEN Raise("TypeError")
  ELSE Ok(Array(newshape, Nest(Ravel(a.data, Len(a.shape)), newshape)))

(* jax.vmap(rotation.apply)(rows): apply to every row of a rank-2 array;   *)
(* the function is traced on a row even when there are no rows.            *)
VmapApply(R, a) ==
  LET probe == SO3Apply(R, [i \in 1..a.shape[2] |-> 0])
  IN IF ~IsOk(probe) THEN probe
     ELSE Ok(Array(a.shape, [i \in 1..a.shape[1] |-> SO3Apply(R, a.data[i]).value]))

----------------------------------------------------------------------------
(* rotate_coordinates                                                      *)

(* rotate_coordinates without the reshape back to the grid (line 199).     *)
RotateCoordinatesNoReshapeBack(coords, rotation) ==
  LET shape == coords.shape
  IN IF Len(shape) = 2 THEN VmapApply(rotation, coords)
     ELSE IF Len(shape) = 4
     THEN LET N == shape[1] * shape[2] * shape[3]
              flat == Reshape(coords, <<N, 3>>)
          IN IF ~IsOk(flat) THEN flat ELSE VmapApply(rotation, flat.value)
     ELSE Raise("InvalidShape")

RotateCoordinates(coords, rotation) ==
  LET shape == coords.shape
  IN IF Len(shape) = 2 THEN VmapApply(rotation, coords)
     ELSE IF Len(shape) = 4
     THEN LET N == shape[1] * shape[2] * shape[3]
              flat == Reshape(coords, <<N, 3>>)
          IN IF ~IsOk(flat) THEN flat
             ELSE LET transformed == VmapApply(rotation, flat.value)
                  IN IF ~IsOk(transformed) THEN transformed
                     ELSE Reshape(transformed.value,
                                  <<shape[1], shape[2], shape[3], 3>>)
     ELSE Raise("InvalidShape")

----------------------------------------------------------------------------
(* compute_shifts                                                          *)

(* exp(-1j * 2 pi * t) for t = n quarters of a cycle: (-i)^n.              *)
ExpMinus2PiI(n) ==
  CASE n % 4 = 0 -> <<1, 0>>
    [] n % 4 = 1 -> <<0, -1>>
    [] n % 4 = 2 -> <<-1, 0>>
    [] n % 4 = 3 -> <<0, 1>>

RECURSIVE Dot(_, _)
Dot(u, v) == IF u = <<>> THEN 0 ELSE Head(u) * Head(v) + Dot(Tail(u), Tail(v))

RECURSIVE MapEntries(_, _, _)
(* The phase factor of every entry (innermost vector) of nested data.      *)
MapEntries(data, rank, xy) ==
  IF rank = 1 THEN ExpMinus2PiI(Dot(data, xy))
  ELSE [i \in 1..Len(data) |-> MapEntries(data[i], rank - 1, xy)]

(* jnp.matmul(coords, xy) contracts the last axis of coords with xy and    *)
(* fails when their lengths differ.                                        *)
ComputeShifts(coords, xy) ==
  IF coords.shape[Len(coords.shape)] # Len(xy) THEN Raise("TypeError")
  ELSE Ok(Array(SubSeq(coords.shape, 1, Len(coords.shape) - 1),
                MapEntries(coords.data, Len(coords.shape), xy)))

----------------------------------------------------------------------------
(* Pose, EulerPose, QuaternionPose: the dataclass fields and constructors. *)

EulerPose(ox, oy, oz, convention, intrinsic, inverse, degrees, phi, theta, psi) ==
  [cls |-> "EulerPose", offset_x |-> ox, offset_y |-> oy, offset_z |-> oz,
   convention |-> convention, intrinsic |-> intrinsic, inverse |-> inverse,
   degrees |-> degrees, view_phi |-> phi, view_theta |-> theta, view_psi |-> psi]

QuaternionPose(ox, oy, oz, inverse, qw, qx, qy, qz) ==
  [cls |-> "QuaternionPose", offset_x |-> ox, offset_y |-> oy, offset_z |-> oz,
   inverse |-> inverse, view_qw |-> qw, view_qx |-> qx, view_qy |-> qy,
   view_qz |-> qz]

(* The body of Pose.offset: the translation vector.                        *)
PoseOffset(p) == Ok(<<p.offset_x, p.offset_y, p.offset_z>>)

(* EulerPose.rotation with the inverse flag ignored.                       *)
EulerPoseRotationIgnoresInverse(p) ==
  MakeEulerRotation(p.view_phi, p.view_theta, p.view_psi,
                    p.convention, p.intrinsic, p.degrees)

(* The body of EulerPose.rotation.                                         *)
EulerPoseRotation(p) ==
  LET R == MakeEulerRotation(p.view_phi, p.view_theta, p.view_psi,
                             p.convention, p.intrinsic, p.degrees)
  IN IF ~IsOk(R) THEN R
     ELSE Ok(IF p.inverse THEN SO3Inverse(R.value) ELSE R.value)

(* The body of QuaternionPose.rotation.                                    *)
QuaternionPoseRotation(p) ==
  LET R == SO3(<<p.view_qw, p.view_qx, p.view_qy, p.view_qz>>)
  IN Ok(IF p.inverse THEN SO3Inverse(R) ELSE R)

(* Pose.rotation is abstract: each variant overrides it.                   *)
PoseRotation(p) ==
  IF p.cls = "EulerPose" THEN EulerPoseRotation(p) ELSE QuaternionPoseRotation(p)

----------------------------------------------------------------------------
(* functools.cached_property: the first read runs the body and stores what *)
(* it returns on the instance; later reads return the stored value.  A     *)
(* body that raises stores nothing.                                        *)

Unset == [kind |-> "unset", value |-> "none"]
EmptyCache == [offset |-> Unset, rotation |-> Unset]

CachedProperty(c, name, body) ==
  IF c[name].kind = "ok" THEN [value |-> c[name], cache |-> c]
  ELSE IF IsOk(body) THEN [value |-> body, cache |-> [c EXCEPT ![name] = body]]
  ELSE [value |-> body, cache |-> c]

ReadOffset(p, c) == CachedProperty(c, "offset", PoseOffset(p))
ReadRotation(p, c) == CachedProperty(c, "rotation", PoseRotation(p))

(* Pose.rotate with the real flag ignored: the rotation is never inverted. *)
PoseRotateIgnoresReal(p, c, coordinates, real) ==
  LET got == ReadRotation(p, c)
  IN IF ~IsOk(got.value) THEN got
     ELSE [value |-> RotateCoordinates(coordinates, got.value.value),
           cache |-> got.cache]

(* Pose.rotate that stores the rotation it applied as the cached rotation. *)
PoseRotateCachesApplied(p, c, coordinates, real) ==
  LET got == ReadRotation(p, c)
  IN IF ~IsOk(got.value) THEN got
     ELSE LET rotation == IF real THEN SO3Inverse(got.value.value)
                          ELSE got.value.value
          IN [value |-> RotateCoordinates(coordinates, rotation),
              cache |-> [got.cache EXCEPT !.rotation = Ok(rotation)]]

(* Pose.rotate: what it returns and the cache it leaves.                   *)
PoseRotate(p, c, coordinates, real) ==
  LET got == ReadRotation(p, c)
  IN IF ~IsOk(got.value) THEN got
     ELSE LET rotation == IF real THEN SO3Inverse(got.value.value)
                          ELSE got.value.value
          IN [value |-> RotateCoordinates(coordinates, rotation),
              cache |-> got.cache]

(* Pose.shifts that slices the offset one place too far: (y, z).           *)
PoseShiftsWrongSlice(p, c, freqs) ==
  LET got == ReadOffset(p, c)
      xy == SubSeq(got.value.value, 2, 3)
  IN [value |-> ComputeShifts(freqs, xy), cache |-> got.cache]

(* Pose.shifts: what it returns and the cache it leaves.                   *)
PoseShifts(p, c, freqs) ==
  LET got == ReadOffset(p, c)
      xy == SubSeq(got.value.value, 1, 2)
  IN [value |-> ComputeShifts(freqs, xy), cache |-> got.cache]

----------------------------------------------------------------------------
(* The inputs the specifications draw from.                                *)

NoPose == [cls |-> "none"]
NoCall == [op |-> "none", args |-> <<>>]

(* Angles, in quarter turns; a field in degrees holds the degrees.         *)
Turns == -MaxTurn..MaxTurn
AngleField(k, degrees) == IF degrees THEN k * DegreesPerQuarterTurn ELSE k

(* Convention strings, as sequences of characters: the 27 the docstring    *)
(* allows and the malformed ones (too short, too long, a foreign letter).  *)
ConvChars == Axes \cup {"a"}
Conventions == UNION {[1..n -> ConvChars] : n \in 0..MaxConvLen}
ValidConventions == [1..3 -> Axes]
IsValidConvention(cv) == Len(cv) = 3 /\ \A i \in 1..Len(cv) : cv[i] \in Axes
SomeConventions ==
  ValidConventions \cup
    {<<"z", "y">>, <<"z", "y", "a">>, <<"z", "y", "z", "x">>, <<"a", "z", "y", "z">>}

(* A coordinate or frequency array of a given shape, its scalars counted   *)
(* upwards from base in row-major order.                                   *)
Counting(shape, base) ==
  Array(shape, Nest([i \in 1..Prod(shape) |-> base + i], shape))

Dims == 0..MaxDim
CoordShapes ==
  UNION {{ld \o <<l>> : ld \in [1..n -> Dims], l \in {3, 4}} : n \in 0..3}
CoordArrays == {Counting(sh, b) : sh \in CoordShapes, b \in {0}}

(* SO3 elements: quarter turns about each axis, and two quaternions that   *)
(* are not of unit norm.                                                   *)
SomeRotations ==
  {FromAxisRadians(ax, k) : ax \in Axes, k \in Turns}
    \cup {SO3(<<1, 1, 0, 0>>), SO3(<<1, -1, 1, 1>>)}

Quats == [1..4 -> -MaxQuat..MaxQuat]

(* A call of make_euler_rotation, the angles given in quarter turns.       *)
EulerCall(a, b, c, cv, intr, dg) ==
  [op |-> "make_euler_rotation",
   args |-> [phi |-> AngleField(a, dg), theta |-> AngleField(b, dg),
             psi |-> AngleField(c, dg), convention |-> cv,
             intrinsic |-> intr, degrees |-> dg]]

CoordCalls ==
  [op : {"rotate_coordinates"},
   args : [coords : CoordArrays, rotation : SomeRotations]]

RotationPoses ==
  {EulerPose(0, 0, 0, cv, intr, inv, dg,
             AngleField(a, dg), AngleField(b, dg), AngleField(c, dg)) :
     cv \in SomeConventions, intr \in BOOLEAN, inv \in BOOLEAN, dg \in BOOLEAN,
     a \in Turns, b \in Turns, c \in Turns}
  \cup {QuaternionPose(0, 0, 0, inv, q[1], q[2], q[3], q[4]) :
          inv \in BOOLEAN, q \in Quats}

(* The poses and arguments of the object-level specification.              *)
LifeOffsets ==
  {<<0, 0, 0>>, <<0, 0, MaxOffset>>, <<MaxOffset, 0, 0>>,
   <<MaxOffset, -MaxOffset, MaxOffset>>}
LifeAngles == {<<a, b, a + b>> : a, b \in Turns}
LifeConventions == {<<"z", "y", "z">>, <<"x", "y", "z">>, <<"z", "y">>}
LifeQuats == {<<1, 0, 0, 0>>, <<0, 1, 0, 0>>, <<1, 1, 0, 0>>, <<1, -1, 1, 1>>}
LifePoses ==
  {EulerPose(o[1], o[2], o[3], cv, intr, inv, dg,
             AngleField(a[1], dg), AngleField(a[2], dg), AngleField(a[3], dg)) :
     o \in LifeOffsets, cv \in LifeConventions, intr \in BOOLEAN,
     inv \in BOOLEAN, dg \in BOOLEAN, a \in LifeAngles}
  \cup {QuaternionPose(o[1], o[2], o[3], inv, q[1], q[2], q[3], q[4]) :
          o \in LifeOffsets, inv \in BOOLEAN, q \in LifeQuats}
LifeCoords ==
  {Counting(sh, 0) : sh \in {<<MaxDim, 3>>, <<1, MaxDim, MaxDim, 3>>,
                             <<MaxDim, 4>>, <<1, MaxDim, 3>>}}
(* Frequencies in halves, cycling through -MaxFreq..MaxFreq.               *)
FreqArray(shape) ==
  Array(shape, Nest([i \in 1..Prod(shape) |-> (i % (2 * MaxFreq + 1)) - MaxFreq],
                    shape))
LifeFreqs ==
  {FreqArray(sh) : sh \in {<<MaxDim + 1, 2>>, <<MaxDim, MaxDim, 2>>, <<MaxDim, 3>>}}

----------------------------------------------------------------------------
(* Spec: one Pose object and the calls made on it, in any order.           *)

Init ==
  /\ pose \in LifePoses
  /\ cache = EmptyCache
  /\ call = NoCall
  /\ ret = Pending

Rotate(coordinates, real) ==
  LET r == PoseRotate(pose, cache, coordinates, real)
  IN /\ call' = [op |-> "rotate", args |-> [coordinates |-> coordinates, real |-> real]]
     /\ ret' = r.value
     /\ cache' = r.cache
     /\ UNCHANGED pose

Shifts(freqs) ==
  LET r == PoseShifts(pose, cache, freqs)
  IN /\ call' = [op |-> "shifts", args |-> [freqs |-> freqs]]
     /\ ret' = r.value
     /\ cache' = r.cache
     /\ UNCHANGED pose

Offset ==
  LET r == ReadOffset(pose, cache)
  IN /\ call' = [op |-> "offset", args |-> <<>>]
     /\ ret' = r.value
     /\ cache' = r.cache
     /\ UNCHANGED pose

Rotation ==
  LET r == ReadRotation(pose, cache)
  IN /\ call' = [op |-> "rotation", args |-> <<>>]
     /\ ret' = r.value
     /\ cache' = r.cache
     /\ UNCHANGED pose

DoRotate == \E c \in LifeCoords, real \in BOOLEAN : Rotate(c, real)
DoShifts == \E f \in LifeFreqs : Shifts(f)

Next == DoRotate \/ DoShifts \/ Offset \/ Rotation

Spec == Init /\ [][Next]_vars

----------------------------------------------------------------------------
(* SpecRotation: the rotation accessor of every pose of RotationPoses.     *)

InitRotation ==
  /\ pose \in RotationPoses
  /\ cache = EmptyCache
  /\ call = NoCall
  /\ ret = Pending

SpecRotation == InitRotation /\ [][Rotation]_vars

----------------------------------------------------------------------------
(* SpecEuler: make_euler_rotation as a function of its arguments.          *)

InitEuler ==
  /\ pose = NoPose
  /\ cache = EmptyCache
  /\ \E a \in Turns, b \in Turns, c \in Turns, cv \in Conventions,
        intr \in BOOLEAN, dg \in BOOLEAN :
       call = EulerCall(a, b, c, cv, intr, dg)
  /\ ret = Pending

CallMakeEulerRotation ==
  /\ call.op = "make_euler_rotation"
  /\ ret = Pending
  /\ ret' = MakeEulerRotation(call.args.phi, call.args.theta, call.args.psi,
                              call.args.convention, call.args.intrinsic,
                              call.args.degrees)
  /\ UNCHANGED <<pose, cache, call>>

SpecEuler == InitEuler /\ [][CallMakeEulerRotation]_vars

----------------------------------------------------------------------------
(* SpecCoords: rotate_coordinates as a function of its arguments.          *)

InitCoords ==
  /\ pose = NoPose
  /\ cache = EmptyCache
  /\ call \in CoordCalls
  /\ ret = Pending

CallRotateCoordinates ==
  /\ call.op = "rotate_coordinates"
  /\ ret = Pending
  /\ ret' = RotateCoordinates(call.args.coords, call.args.rotation)
  /\ UNCHANGED <<pose, cache, call>>

SpecCoords == InitCoords /\ [][CallRotateCoordinates]_vars

----------------------------------------------------------------------------
(* Serialization.  The dataclass fields, in declaration order (a base      *)
(* class's fields first), and their defaults are those of pose.py; to_json *)
(* and from_json belong to the Module base class.                          *)

PoseFieldNames == <<"offset_x", "offset_y", "offset_z">>

(* The EulerPose fields with degrees not declared a field.                 *)
EulerPoseFieldNamesNoDegrees ==
  PoseFieldNames \o <<"convention", "intrinsic", "inverse",
                      "view_phi", "view_theta", "view_psi">>

EulerPoseFieldNames ==
  PoseFieldNames \o <<"convention", "intrinsic", "inverse", "degrees",
                      "view_phi", "view_theta", "view_psi">>

QuaternionPoseFieldNames ==
  PoseFieldNames \o <<"inverse", "view_qw", "view_qx", "view_qy", "view_qz">>

EulerPoseDefaults ==
  EulerPose(0, 0, 0, <<"z", "y", "z">>, TRUE, FALSE, TRUE, 0, 0, 0)

QuaternionPoseDefaults == QuaternionPose(0, 0, 0, FALSE, 1, 0, 0, 0)

FieldNames(cls) ==
  IF cls = "EulerPose" THEN EulerPoseFieldNames ELSE QuaternionPoseFieldNames

Defaults(cls) ==
  IF cls = "EulerPose" THEN EulerPoseDefaults ELSE QuaternionPoseDefaults

(* The fields declared with static=True.                                   *)
StaticFieldNames == {"convention", "intrinsic", "inverse", "degrees"}

(* A PipelineState, as far as its pose goes.                               *)
PipelineState(p) == [cls |-> "PipelineState", pose |-> p]

(* One field's value as a token of the text: a flag as the word true or    *)
(* false, a string or a number as itself.                                  *)
EncodeValue(name, v) ==
  IF name \in {"intrinsic", "inverse", "degrees"}
  THEN [t |-> "bool", v |-> IF v THEN "true" ELSE "false"]
  ELSE IF name = "convention" THEN [t |-> "str", v |-> v]
  ELSE [t |-> "num", v |-> v]

DecodeValue(tok) == IF tok.t = "bool" THEN tok.v = "true" ELSE tok.v

(* to_json of a pose: its fields, by name, in declaration order.           *)
PoseToJson(p) ==
  [i \in 1..Len(FieldNames(p.cls)) |->
     [key |-> FieldNames(p.cls)[i],
      tok |-> EncodeValue(FieldNames(p.cls)[i], p[FieldNames(p.cls)[i]])]]

(* from_json of a pose class: every field the text names, the default of   *)
(* every field it does not.                                                *)
PoseFromJson(cls, json) ==
  [f \in DOMAIN Defaults(cls) |->
     IF \E i \in 1..Len(json) : json[i].key = f
     THEN DecodeValue(json[CHOOSE i \in 1..Len(json) : json[i].key = f].tok)
     ELSE Defaults(cls)[f]]

ToJson(obj) ==
  IF obj.cls = "PipelineState"
  THEN <<[key |-> "pose", cls |-> obj.pose.cls, obj |-> PoseToJson(obj.pose)]>>
  ELSE PoseToJson(obj)

FromJson(cls, json) ==
  IF cls = "PipelineState"
  THEN PipelineState(PoseFromJson(json[1].cls, json[1].obj))
  ELSE PoseFromJson(cls, json)

JsonPoses ==
  {EulerPose(o[1], o[2], o[3], cv, intr, inv, dg,
             AngleField(a[1], dg), AngleField(a[2], dg), AngleField(a[3], dg)) :
     o \in LifeOffsets, cv \in ValidConventions, intr \in BOOLEAN,
     inv \in BOOLEAN, dg \in BOOLEAN, a \in LifeAngles}
  \cup {QuaternionPose(o[1], o[2], o[3], inv, q[1], q[2], q[3], q[4]) :
          o \in LifeOffsets, inv \in BOOLEAN, q \in Quats}

JsonCalls ==
  [op : {"round_trip"},
   args : [obj : JsonPoses \cup {PipelineState(p) : p \in JsonPoses}]]

----------------------------------------------------------------------------
(* SpecJson: cls.from_json(obj.to_json()).to_json(), as the tests run it.  *)

InitJson ==
  /\ pose = NoPose
  /\ cache = EmptyCache
  /\ call \in JsonCalls
  /\ ret = Pending

CallRoundTrip ==
  /\ call.op = "round_trip"
  /\ ret = Pending
  /\ LET encoded == ToJson(call.args.obj)
         decoded == FromJson(call.args.obj.cls, encoded)
     IN ret' = Ok([encoded |-> encoded, decoded |-> decoded,
                   reencoded |-> ToJson(decoded)])
  /\ UNCHANGED <<pose, cache, call>>

SpecJson == InitJson /\ [][CallRoundTrip]_vars

----------------------------------------------------------------------------
(* What the properties below are stated with.                              *)

TestVectors == {<<1, 0, 0>>, <<0, 1, 0>>, <<0, 0, 1>>, <<1, 2, 3>>}
Norm2(v) == Dot(v, v)

(* wxyz / sqrt(den2) has norm one.                                         *)
IsUnit(R) == Dot(R.wxyz, R.wxyz) = R.den2

(* A right-handed quarter turn of v about a coordinate axis.               *)
QuarterTurn(axis, v) ==
  CASE axis = "x" -> <<v[1], -v[3], v[2]>>
    [] axis = "y" -> <<v[3], v[2], -v[1]>>
    [] axis = "z" -> <<-v[2], v[1], v[3]>>

RECURSIVE Turned(_, _, _)
(* v turned by k quarter turns about the axis.                             *)
Turned(axis, k, v) ==
  IF k % 4 = 0 THEN v ELSE QuarterTurn(axis, Turned(axis, (k % 4) - 1, v))

(* The two shapes of a Coordinate Set.                                     *)
AcceptedShape(shape) ==
  \/ Len(shape) = 2 /\ shape[2] = 3
  \/ Len(shape) = 4 /\ shape[4] = 3

(* The vectors of a grid in lattice order, by index arithmetic.            *)
LatticeRows(a) ==
  LET N2 == a.shape[2]
      N3 == a.shape[3]
  IN [n \in 1..(a.shape[1] * N2 * N3) |->
        a.data[((n - 1) \div (N2 * N3)) + 1]
              [(((n - 1) \div N3) % N2) + 1]
              [((n - 1) % N3) + 1]]

VectorsOf(a) == IF Len(a.shape) = 2 THEN a.data ELSE LatticeRows(a)

(* The quarter turns an angle argument stands for.                         *)
QuarterTurnsOf(angle, degrees) ==
  IF degrees THEN angle \div DegreesPerQuarterTurn ELSE angle

----------------------------------------------------------------------------
(* C1: Pose.rotate on an accepted Coordinate Set returns, in the shape of  *)
(* its input, every 3-vector with the inverse of the pose's rotation       *)
(* applied when real is true and with the rotation itself applied when     *)
(* real is false; for a rotation of unit norm, turning the output back     *)
(* (by the rotation, resp. its inverse) gives the input again.             *)
C1_RotateInvertsInRealSpace ==
  (/\ call.op = "rotate"
   /\ AcceptedShape(call.args.coordinates.shape)
   /\ IsOk(PoseRotation(pose)))
  => LET R == PoseRotation(pose).value
         used == IF call.args.real THEN SO3Inverse(R) ELSE R
         back == IF call.args.real THEN R ELSE SO3Inverse(R)
         src == VectorsOf(call.args.coordinates)
     IN /\ IsOk(ret)
        /\ ret.value.shape = call.args.coordinates.shape
        /\ Len(VectorsOf(ret.value)) = Len(src)
        /\ \A i \in 1..Len(src) :
             /\ VectorsOf(ret.value)[i] = SO3Apply(used, src[i]).value
             /\ IsUnit(R) =>
                  SO3Apply(back, VectorsOf(ret.value)[i]).value = src[i]

(* A real-space rotate of a grid by a unit rotation that moved the grid.   *)
C1_Witness ==
  /\ call.op = "rotate"
  /\ call.args.real
  /\ Len(call.args.coordinates.shape) = 4
  /\ IsOk(ret)
  /\ IsUnit(PoseRotation(pose).value)
  /\ ret.value # call.args.coordinates

----------------------------------------------------------------------------
(* C2: for a convention of three characters of x, y, z, the operator       *)
(* make_euler_rotation returns acts on every vector as R1 o R2 o R3 when   *)
(* intrinsic and as R3 o R2 o R1 when not, Ri being the turn about         *)
(* convention[i] by the i-th angle.                                        *)
C2_EulerCompositionOrder ==
  (/\ call.op = "make_euler_rotation"
   /\ ret.kind # "pending"
   /\ IsValidConvention(call.args.convention))
  => LET a == call.args
         k1 == QuarterTurnsOf(a.phi, a.degrees)
         k2 == QuarterTurnsOf(a.theta, a.degrees)
         k3 == QuarterTurnsOf(a.psi, a.degrees)
         cv == a.convention
     IN /\ IsOk(ret)
        /\ \A v \in TestVectors :
             SO3Apply(ret.value, v).value =
               IF a.intrinsic
               THEN Turned(cv[1], k1, Turned(cv[2], k2, Turned(cv[3], k3, v)))
               ELSE Turned(cv[3], k3, Turned(cv[2], k2, Turned(cv[1], k1, v)))

(* An intrinsic call whose result differs from the extrinsic composition.  *)
C2_Witness ==
  /\ call.op = "make_euler_rotation"
  /\ IsOk(ret)
  /\ IsValidConvention(call.args.convention)
  /\ call.args.intrinsic
  /\ call.args.degrees
  /\ LET a == call.args
         cv == a.convention
         v == <<1, 2, 3>>
     IN SO3Apply(ret.value, v).value #
          Turned(cv[3], QuarterTurnsOf(a.psi, TRUE),
                 Turned(cv[2], QuarterTurnsOf(a.theta, TRUE),
                        Turned(cv[1], QuarterTurnsOf(a.phi, TRUE), v)))

----------------------------------------------------------------------------
(* C3: rotate_coordinates raises InvalidShape for every Coordinate Set     *)
(* whose shape is neither (N,3) nor (N1,N2,N3,3).                          *)
C3_InvalidShapeRejected ==
  (/\ call.op = "rotate_coordinates"
   /\ ret.kind # "pending"
   /\ ~AcceptedShape(call.args.coords.shape))
  => (ret.kind = "error" /\ ret.value = "InvalidShape")

----------------------------------------------------------------------------
(* C4: a convention that is not exactly three characters of x, y, z makes  *)
(* make_euler_rotation raise; no Rotation Operator is returned.            *)
C4_InvalidConventionRejected ==
  (/\ call.op = "make_euler_rotation"
   /\ ret.kind # "pending"
   /\ ~IsValidConvention(call.args.convention))
  => ret.kind = "error"

----------------------------------------------------------------------------
(* C5, as claimed: every rotation either accessor returns, for any field   *)
(* values, preserves the norm of every vector.                             *)
C5_NormPreservedForAnyFields ==
  (call.op = "rotation" /\ IsOk(ret))
  => \A v \in TestVectors : Norm2(SO3Apply(ret.value, v).value) = Norm2(v)

(* C5, amended: every rotation EulerPose.rotation returns, and every       *)
(* rotation QuaternionPose.rotation returns for a quaternion of unit norm, *)
(* preserves the norm of every vector.                                     *)
C5_NormPreservedForUnitQuaternions ==
  (/\ call.op = "rotation"
   /\ IsOk(ret)
   /\ pose.cls = "QuaternionPose" =>
        IsUnit(SO3(<<pose.view_qw, pose.view_qx, pose.view_qy, pose.view_qz>>)))
  => \A v \in TestVectors : Norm2(SO3Apply(ret.value, v).value) = Norm2(v)

(* An Euler rotation that moves a vector.                                  *)
C5_Witness ==
  /\ call.op = "rotation"
  /\ pose.cls = "EulerPose"
  /\ IsOk(ret)
  /\ SO3Apply(ret.value, <<1, 2, 3>>).value # <<1, 2, 3>>

----------------------------------------------------------------------------
(* C6: rotate_coordinates of a grid of shape (N1,N2,N3,3) returns a grid   *)
(* of that shape whose vectors, in lattice order, are those that           *)
(* rotate_coordinates returns for the flattened (N1*N2*N3,3) grid.         *)
C6_GridEqualsFlatList ==
  (/\ call.op = "rotate_coordinates"
   /\ ret.kind # "pending"
   /\ Len(call.args.coords.shape) = 4
   /\ call.args.coords.shape[4] = 3)
  => LET g == call.args.coords
         flat == Array(<<g.shape[1] * g.shape[2] * g.shape[3], 3>>, LatticeRows(g))
         direct == RotateCoordinates(flat, call.args.rotation)
     IN /\ IsOk(ret)
        /\ IsOk(direct)
        /\ ret.value.shape = g.shape
        /\ Len(ret.value.data) = g.shape[1]
        /\ \A i \in 1..g.shape[1] :
             /\ Len(ret.value.data[i]) = g.shape[2]
             /\ \A j \in 1..g.shape[2] : Len(ret.value.data[i][j]) = g.shape[3]
        /\ LatticeRows(ret.value) = direct.value.data

(* A grid with more than one point along each axis, moved by the rotation. *)
C6_Witness ==
  /\ call.op = "rotate_coordinates"
  /\ IsOk(ret)
  /\ Len(call.args.coords.shape) = 4
  /\ \A d \in 1..3 : call.args.coords.shape[d] >= 2
  /\ ret.value # call.args.coords

----------------------------------------------------------------------------
----------------------------------------------------------------------------
----------------------------------------------------------------------------
(* The entries of the array shifts returns, in row-major order.            *)
EntriesOf(a) == IF a.shape = <<>> THEN <<a.data>> ELSE Ravel(a.data, Len(a.shape))

ShiftsAllOne ==
  /\ IsOk(ret)
  /\ ret.value.shape =
       SubSeq(call.args.freqs.shape, 1, Len(call.args.freqs.shape) - 1)
  /\ Len(EntriesOf(ret.value)) = Prod(ret.value.shape)
  /\ \A i \in 1..Len(EntriesOf(ret.value)) : EntriesOf(ret.value)[i] = <<1, 0>>

----------------------------------------------------------------------------
(* What a call returns as the first call on a fresh Pose of these fields.  *)
FirstCallResult(p, cl) ==
  CASE cl.op = "rotate" ->
         PoseRotate(p, EmptyCache, cl.args.coordinates, cl.args.real).value
    [] cl.op = "shifts" -> PoseShifts(p, EmptyCache, cl.args.freqs).value
    [] cl.op = "offset" -> ReadOffset(p, EmptyCache).value
    [] cl.op = "rotation" -> ReadRotation(p, EmptyCache).value

CachesAndResultsFresh ==
  /\ cache.offset.kind = "ok" => cache.offset = PoseOffset(pose)
  /\ cache.rotation.kind = "ok" => cache.rotation = PoseRotation(pose)
  /\ cache.offset.kind \in {"ok", "unset"}
  /\ cache.rotation.kind \in {"ok", "unset"}
  /\ call.op # "none" => ret = FirstCallResult(pose, call)

(* C10: whatever calls were made on a Pose, no call changes its fields, a  *)
(* populated cache holds what its body computes from the fields, and the   *)
(* last call returned what it returns as the first call on a fresh Pose.   *)
C10_CallsArePure == [][pose' = pose]_vars /\ []CachesAndResultsFresh

(* A frequency-space rotate on a pose both of whose caches earlier calls   *)
(* have filled.                                                            *)
C10_Witness ==
  /\ call.op = "rotate"
  /\ IsOk(ret)
  /\ cache.offset.kind = "ok"
  /\ cache.rotation.kind = "ok"
  /\ ~call.args.real

============================================================================
